---- MODULE Spec2Model ----
(***************************************************************************)
(* Model of the per-neighbor BGP-LS finite state machine of               *)
(* src/neighbor.go: the driver goroutine (standardFSM.loop and the state  *)
(* handlers), the reader goroutine (standardFSM.read), the dial goroutine *)
(* started by connect(), the callers of shut(), the three timers and the  *)
(* OPEN validator (standardFSM.validateOpen).                             *)
(*                                                                         *)
(* Channels of the source are unbuffered: a send and its receive are one  *)
(* joint step of the two goroutines.  A driver step runs from one         *)
(* blocking point (select, channel receive) to the next.  Durations are   *)
(* whole seconds.  A time.Timer is [armed, pending]: armed = scheduled to *)
(* fire, pending = an expiry sits unread in its channel C (capacity 1).   *)
(***************************************************************************)
EXTENDS Integers, Sequences, FiniteSets, TLC

\* ------------------------------------------------------------------ bounds
MaxHold == 9
MaxCalls == 2
MaxBatch == 1

\* --------------------------------------------------------------- FSMState
DisabledState == "Disabled"
IdleState == "Idle"
ConnectState == "Connect"
ActiveState == "Active"
OpenSentState == "OpenSent"
OpenConfirmState == "OpenConfirm"
EstablishedState == "Established"

FSMState ==
  {DisabledState, IdleState, ConnectState, ActiveState, OpenSentState,
   OpenConfirmState, EstablishedState}

\* ------------------------------------------------- protocol constants
asTrans == 23456
BgpLsAFI == 16388
BgpLsSAFI == 71
NotifErrCodeMessageHeader == 1
NotifErrCodeOpenMessage == 2
NotifErrCodeHoldTimerExpired == 4
NotifErrCodeCease == 6
NotifErrSubcodeBadType == 3
NotifErrSubcodeUnsupportedVersionNumber == 1
NotifErrSubcodeBadPeerAS == 2
NotifErrSubcodeBadBgpID == 3
NotifErrSubcodeUnsupportedOptParam == 4
NotifErrSubcodeUnacceptableHoldTime == 6
NotifErrSubcodeUnsupportedCapability == 7
Uint16Mod == 65536

\* nil error, and an error carrying a NOTIFICATION payload
NilErr == [code |-> 0, subcode |-> 0, data |-> <<>>]
errWithNotification(code, subcode, data) ==
  [code |-> code, subcode |-> subcode, data |-> data]

\* serialized multiprotocol capability: code 1, length 4, AFI, reserved, SAFI
capMultiprotoSerialize(afi, safi) ==
  <<1, 4, afi \div 256, afi % 256, 0, safi>>

\* ------------------------------------------------------------ messages
capFourOctetAs(a) == [kind |-> "fourOctetAs", asn |-> a, afi |-> 0, safi |-> 0]
capMultiproto(afi, safi) == [kind |-> "multiproto", asn |-> 0, afi |-> afi, safi |-> safi]
capUnknown == [kind |-> "unknown", asn |-> 0, afi |-> 0, safi |-> 0]
capabilityOptParam(caps) == [kind |-> "capability", caps |-> caps]
otherOptParam == [kind |-> "other", caps |-> <<>>]

openMessage(version, asn, holdTime, bgpID, optParams) ==
  [type |-> "open", version |-> version, asn |-> asn, holdTime |-> holdTime,
   bgpID |-> bgpID, optParams |-> optParams]
keepAliveMessage == [type |-> "keepalive"]
UpdateMessage == [type |-> "update"]
NotificationMessage == [type |-> "notification"]

\* --------------------------------------------------------- validateOpen
\* the inner loop comparing the Four-Octet-AS capability with the configured
\* ASN cut to 16 bits
RECURSIVE scanCaps_TruncatedASN(_, _, _)
scanCaps_TruncatedASN(caps, cfgASN, st) ==
  IF caps = <<>> THEN st
  ELSE LET c == Head(caps) IN
    IF c.kind = "fourOctetAs"
    THEN IF c.asn # cfgASN % Uint16Mod
         THEN [st EXCEPT !.fourOctetAsFound = TRUE,
                         !.err = errWithNotification(NotifErrCodeOpenMessage,
                                   NotifErrSubcodeBadPeerAS, <<>>)]
         ELSE scanCaps_TruncatedASN(Tail(caps), cfgASN,
                                    [st EXCEPT !.fourOctetAsFound = TRUE])
    ELSE IF c.kind = "multiproto" /\ c.afi = BgpLsAFI /\ c.safi = BgpLsSAFI
    THEN scanCaps_TruncatedASN(Tail(caps), cfgASN, [st EXCEPT !.bgpLsAfFound = TRUE])
    ELSE scanCaps_TruncatedASN(Tail(caps), cfgASN, st)

\* inner loop over the capabilities of one capability parameter
RECURSIVE scanCaps(_, _, _)
scanCaps(caps, cfgASN, st) ==
  IF caps = <<>> THEN st
  ELSE LET c == Head(caps) IN
    IF c.kind = "fourOctetAs"
    THEN IF c.asn # cfgASN
         THEN [st EXCEPT !.fourOctetAsFound = TRUE,
                         !.err = errWithNotification(NotifErrCodeOpenMessage,
                                   NotifErrSubcodeBadPeerAS, <<>>)]
         ELSE scanCaps(Tail(caps), cfgASN, [st EXCEPT !.fourOctetAsFound = TRUE])
    ELSE IF c.kind = "multiproto" /\ c.afi = BgpLsAFI /\ c.safi = BgpLsSAFI
    THEN scanCaps(Tail(caps), cfgASN, [st EXCEPT !.bgpLsAfFound = TRUE])
    ELSE scanCaps(Tail(caps), cfgASN, st)

\* outer loop over the optional parameters
RECURSIVE scanOptParams(_, _, _)
scanOptParams(params, cfgASN, st) ==
  IF params = <<>> THEN st
  ELSE LET p == Head(params) IN
    IF p.kind # "capability"
    THEN [st EXCEPT !.err = errWithNotification(NotifErrCodeOpenMessage,
                              NotifErrSubcodeUnsupportedOptParam, <<>>)]
    ELSE LET st2 == scanCaps(p.caps, cfgASN, st) IN
         IF st2.err # NilErr THEN st2
         ELSE scanOptParams(Tail(params), cfgASN, st2)

\* the negotiation step of validateOpen (the assignment to f.holdTime and
\* f.keepAliveTime), as [holdTime, keepAliveTime]
negotiate(msgHold, holdTime, keepAliveTime) ==
  IF msgHold < holdTime
  THEN [holdTime |-> msgHold, keepAliveTime |-> msgHold \div 3]
  ELSE [holdTime |-> holdTime, keepAliveTime |-> keepAliveTime]

\* validateOpen with the BGP ID checked before the hold time
validateOpen_BgpIDBeforeHoldTime(msg, cfgASN, holdTime, keepAliveTime) ==
  LET same == [err |-> NilErr, holdTime |-> holdTime, keepAliveTime |-> keepAliveTime]
      fourOctetAS == (msg.asn = asTrans)
      neg == negotiate(msg.holdTime, holdTime, keepAliveTime)
      after == [err |-> NilErr, holdTime |-> neg.holdTime,
                keepAliveTime |-> neg.keepAliveTime]
      st == scanOptParams(msg.optParams, cfgASN,
              [fourOctetAsFound |-> FALSE, bgpLsAfFound |-> FALSE, err |-> NilErr])
  IN
  IF msg.version # 4
  THEN [same EXCEPT !.err = errWithNotification(NotifErrCodeOpenMessage,
                              NotifErrSubcodeUnsupportedVersionNumber, <<0, 4>>)]
  ELSE IF ~fourOctetAS /\ msg.asn # cfgASN % Uint16Mod
  THEN [same EXCEPT !.err = errWithNotification(NotifErrCodeOpenMessage,
                              NotifErrSubcodeBadPeerAS, <<>>)]
  ELSE IF msg.bgpID = 0
  THEN [same EXCEPT !.err = errWithNotification(NotifErrCodeOpenMessage,
                               NotifErrSubcodeBadBgpID, <<>>)]
  ELSE IF msg.holdTime < 3
  THEN [same EXCEPT !.err = errWithNotification(NotifErrCodeOpenMessage,
                              NotifErrSubcodeUnacceptableHoldTime, <<>>)]
  ELSE IF st.err # NilErr
  THEN [after EXCEPT !.err = st.err]
  ELSE IF ~st.bgpLsAfFound
  THEN [after EXCEPT !.err = errWithNotification(NotifErrCodeOpenMessage,
                               NotifErrSubcodeUnsupportedCapability,
                               capMultiprotoSerialize(BgpLsAFI, BgpLsSAFI))]
  ELSE IF fourOctetAS /\ ~st.fourOctetAsFound
  THEN [after EXCEPT !.err = errWithNotification(NotifErrCodeOpenMessage,
                               NotifErrSubcodeBadPeerAS, <<>>)]
  ELSE after

\* validateOpen(msg) on an FSM whose neighbor has ASN cfgASN and whose
\* fields are holdTime, keepAliveTime: the error returned (NilErr = nil)
\* and the fields afterwards
validateOpen(msg, cfgASN, holdTime, keepAliveTime) ==
  LET same == [err |-> NilErr, holdTime |-> holdTime, keepAliveTime |-> keepAliveTime]
      fourOctetAS == (msg.asn = asTrans)
      neg == negotiate(msg.holdTime, holdTime, keepAliveTime)
      after == [err |-> NilErr, holdTime |-> neg.holdTime,
                keepAliveTime |-> neg.keepAliveTime]
      st == scanOptParams(msg.optParams, cfgASN,
              [fourOctetAsFound |-> FALSE, bgpLsAfFound |-> FALSE, err |-> NilErr])
  IN
  IF msg.version # 4
  THEN [same EXCEPT !.err = errWithNotification(NotifErrCodeOpenMessage,
                              NotifErrSubcodeUnsupportedVersionNumber, <<0, 4>>)]
  ELSE IF ~fourOctetAS /\ msg.asn # cfgASN % Uint16Mod
  THEN [same EXCEPT !.err = errWithNotification(NotifErrCodeOpenMessage,
                              NotifErrSubcodeBadPeerAS, <<>>)]
  ELSE IF msg.holdTime < 3
  THEN [same EXCEPT !.err = errWithNotification(NotifErrCodeOpenMessage,
                              NotifErrSubcodeUnacceptableHoldTime, <<>>)]
  ELSE IF msg.bgpID = 0
  THEN [after EXCEPT !.err = errWithNotification(NotifErrCodeOpenMessage,
                               NotifErrSubcodeBadBgpID, <<>>)]
  ELSE IF st.err # NilErr
  THEN [after EXCEPT !.err = st.err]
  ELSE IF ~st.bgpLsAfFound
  THEN [after EXCEPT !.err = errWithNotification(NotifErrCodeOpenMessage,
                               NotifErrSubcodeUnsupportedCapability,
                               capMultiprotoSerialize(BgpLsAFI, BgpLsSAFI))]
  ELSE IF fourOctetAS /\ ~st.fourOctetAsFound
  THEN [after EXCEPT !.err = errWithNotification(NotifErrCodeOpenMessage,
                               NotifErrSubcodeBadPeerAS, <<>>)]
  ELSE after

\* ------------------------------------------------------------- inputs
\* the neighbor's configuration: ASN and HoldTime (seconds)
ConfigASN == 64512
ConfigHolds == {3, MaxHold}
Configs == {[ASN |-> ConfigASN, HoldTime |-> h] : h \in ConfigHolds}

\* what the peer may send.  OPENs: well-formed ones with two hold times,
\* one with BGP ID 0, one with a wrong version.
PeerHolds == {3, MaxHold - 3}
goodOptParams(a) ==
  <<capabilityOptParam(<<capFourOctetAs(a), capMultiproto(BgpLsAFI, BgpLsSAFI)>>)>>
PeerOpens ==
  {openMessage(4, ConfigASN, h, 1, goodOptParams(ConfigASN)) : h \in PeerHolds}
  \cup {openMessage(4, ConfigASN, 3, 0, goodOptParams(ConfigASN)),
        openMessage(5, ConfigASN, 3, 1, goodOptParams(ConfigASN))}
PeerMessages == PeerOpens \cup {keepAliveMessage, UpdateMessage, NotificationMessage}

RECURSIVE SeqsUpTo(_, _)
SeqsUpTo(S, n) ==
  IF n = 0 THEN {<<>>}
  ELSE LET shorter == SeqsUpTo(S, n - 1) IN
       shorter \cup {<<x>> \o q : x \in S, q \in {t \in shorter : Len(t) = n - 1}}
\* what one conn.Read followed by messagesFromBytes can yield
Batches == SeqsUpTo(PeerMessages, MaxBatch) \ {<<>>}

Callers == {1}

\* -------------------------------------------------------------- state
VARIABLES
  cfg,            \* neighbor.config(): [ASN, HoldTime]
  s,              \* f.s
  holdTime,       \* f.holdTime (seconds)
  keepAliveTime,  \* f.keepAliveTime (seconds)
  connectRetryTimer, holdTimer, keepAliveTimer,  \* [armed, pending]
  conn,           \* f.conn: "nil", "open", "closed"
  closeReader,    \* f.closeReader is closed
  readerClosed,   \* f.readerClosed is closed
  pc,             \* where the driver goroutine (loop) stands
  ret,            \* the state the running handler will return after its
                  \* pending emit / cleanupConn ("none" when not in use)
  dial,           \* the dial goroutine of connect()
  reader,         \* where the reader goroutine of the current quartet stands
  rbuf,           \* msgs of the reader not yet sent on msgCh
  nReaders,       \* number of live reader goroutines
  shutpc,         \* per caller of shut(): "out", "send", "recv"
  calls,          \* per caller: number of shut() calls started
  \* observation of the outputs
  evTick,         \* flips on every send on f.events
  lastEvent,      \* kind of the last event sent on f.events
  lastTrans,      \* state of the last NeighborStateTransition event
  prevTrans,      \* state of the one before
  entryEvents,    \* NeighborStateTransition events since f.s was last set
  notif,          \* code of the last NOTIFICATION handed to f.conn.Write on
                  \* the current conn (the Write has returned unless pc is
                  \* one of the Write points)
  openAdv,        \* hold time of the last OPEN written
  acceptedHold,   \* hold time of the OPEN validateOpen accepted on the
                  \* current conn (0: none yet)
  verr,           \* what the last call of validateOpen on the current conn
                  \* returned (NilErr: nil, or no call yet)
  perr,           \* the protocol error the driver detected on the current
                  \* conn: "none", "open" (a rejected OPEN), "type" (a
                  \* message of the wrong type), "hold" (HoldTimer expired)
  cleanups        \* cleanupConn calls on the current conn

timers == <<connectRetryTimer, holdTimer, keepAliveTimer>>
negotiated == <<holdTime, keepAliveTime, acceptedHold, verr>>
session == <<holdTime, keepAliveTime, acceptedHold, verr, perr>>
quartet == <<conn, closeReader, readerClosed, cleanups>>
rdr == <<reader, rbuf, nReaders>>
shutters == <<shutpc, calls>>
events == <<evTick, lastEvent, lastTrans, prevTrans>>
driver == <<pc, ret, s, entryEvents>>
wire == <<notif, openAdv>>
vars == <<cfg, s, holdTime, keepAliveTime, connectRetryTimer, holdTimer,
          keepAliveTimer, conn, closeReader, readerClosed, pc, ret, dial,
          reader, rbuf, nReaders, shutpc, calls, evTick, lastEvent, lastTrans,
          prevTrans, entryEvents, notif, openAdv, acceptedHold, verr,
          perr, cleanups>>

\* ------------------------------------------------------------- timers
Dormant == [armed |-> FALSE, pending |-> FALSE]
\* t.Reset(d)
TimerReset(t) == [t EXCEPT !.armed = TRUE]
\* the runtime delivers the expiry of an armed timer into t.C
TimerFire(t) == [armed |-> FALSE, pending |-> TRUE]
\* <-t.C
TimerRecv(t) == [t EXCEPT !.pending = FALSE]
\* if !t.Stop() { <-t.C } : possible when armed (Stop reports true) or when
\* an expiry is pending (the receive returns); blocks otherwise
CanStopDrain(t) == t.armed \/ t.pending
StopDrain(t) == IF t.armed THEN [t EXCEPT !.armed = FALSE]
                ELSE [t EXCEPT !.pending = FALSE]

\* <<code, subcode>> of a NOTIFICATION; none written
NoNotif == <<0, 0>>

\* newFSM: state after construction
Init ==
  /\ cfg \in Configs
  /\ s = IdleState
  /\ holdTime = cfg.HoldTime
  /\ keepAliveTime = cfg.HoldTime \div 3
  /\ connectRetryTimer = Dormant /\ holdTimer = Dormant /\ keepAliveTimer = Dormant
  /\ conn = "nil" /\ closeReader = FALSE /\ readerClosed = FALSE
  /\ pc = "loop_emit" /\ ret = "none"
  /\ dial = "none"
  /\ reader = "none" /\ rbuf = <<>> /\ nReaders = 0
  /\ shutpc = [c \in Callers |-> "out"]
  /\ calls = [c \in Callers |-> 0]
  /\ evTick = FALSE /\ lastEvent = "none" /\ lastTrans = "none" /\ prevTrans = "none"
  /\ entryEvents = 0
  /\ notif = NoNotif /\ openAdv = 0 /\ acceptedHold = 0 /\ cleanups = 0
  /\ verr = NilErr
  /\ perr = "none"

\* -------------------------------------------------- transition guard
\* transition with the edge OpenSent -> Active left out of the guard
transition_NoOpenSentToActive(from, to) ==
  CASE to = DisabledState -> TRUE
    [] to = IdleState -> TRUE
    [] to = ConnectState -> from \in {IdleState, ConnectState, ActiveState}
    [] to = ActiveState -> from \in {ConnectState, ActiveState}
    [] to = OpenSentState -> from \in {ConnectState, ActiveState}
    [] to = OpenConfirmState -> from \in {OpenSentState, OpenConfirmState}
    [] to = EstablishedState -> from \in {OpenConfirmState, EstablishedState}
    [] OTHER -> FALSE

\* transition(state) returns nil when called in state `from`
transition(from, to) ==
  CASE to = DisabledState -> TRUE
    [] to = IdleState -> TRUE
    [] to = ConnectState -> from \in {IdleState, ConnectState, ActiveState}
    [] to = ActiveState -> from \in {ConnectState, ActiveState, OpenSentState}
    [] to = OpenSentState -> from \in {ConnectState, ActiveState}
    [] to = OpenConfirmState -> from \in {OpenSentState, OpenConfirmState}
    [] to = EstablishedState -> from \in {OpenConfirmState, EstablishedState}
    [] OTHER -> FALSE

\* a handler returns `to`: transitionAndPanicOnErr, then the top of loop():
\* f.state() is read and the driver blocks in the select that emits the
\* transition event, or, in Disabled, in the send on f.disable
Return(to) ==
  IF transition(s, to)
  THEN /\ s' = to
       /\ entryEvents' = 0
       /\ pc' = IF to = DisabledState THEN "echo" ELSE "loop_emit"
       /\ ret' = "none"
  ELSE /\ pc' = "panic"
       /\ ret' = "none"
       /\ UNCHANGED <<s, entryEvents>>

Goto(p, r) == pc' = p /\ ret' = r /\ UNCHANGED <<s, entryEvents>>

\* f.events <- event (the speaker receives)
Emit(kind) ==
  /\ evTick' = ~evTick
  /\ lastEvent' = kind
  /\ UNCHANGED <<lastTrans, prevTrans>>

\* <-f.disable in the driver: some caller of shut() is sending
DisableRecv ==
  \E c \in DOMAIN shutpc :
    /\ shutpc[c] = "send"
    /\ shutpc' = [shutpc EXCEPT ![c] = "recv"]
    /\ UNCHANGED calls

\* the first half of cleanupConn: f.conn.Close(); close(f.closeReader); the
\* driver then blocks in <-f.readerClosed.  Closing a closed channel and
\* closing a nil conn panic.
cleanupConn(r) ==
  IF conn = "nil" \/ closeReader
  THEN /\ Goto("panic", "none")
       /\ UNCHANGED quartet
  ELSE /\ conn' = "closed"
       /\ closeReader' = TRUE
       /\ cleanups' = cleanups + 1
       /\ UNCHANGED readerClosed
       /\ Goto("cleanup_wait", r)

\* the driver is blocked for ever in a receive from the channel of a timer
\* that is neither armed nor holds an expiry
Blocked == Goto("blocked", "none")

\* cleanupConn() without the drainHoldTimer() before it
drainAndCleanup_NoDrain(r) ==
  /\ cleanupConn(r)
  /\ UNCHANGED holdTimer

\* drainHoldTimer(); cleanupConn(); the handler then returns r
drainAndCleanup(r) ==
  IF CanStopDrain(holdTimer)
  THEN /\ holdTimer' = StopDrain(holdTimer)
       /\ cleanupConn(r)
  ELSE /\ Blocked
       /\ UNCHANGED <<holdTimer, quartet>>

\* f.conn = conn; go f.read()
installConn ==
  /\ conn' = "open"
  /\ cleanups' = 0
  /\ acceptedHold' = 0
  /\ verr' = NilErr
  /\ perr' = "none"
  /\ reader' = "read"
  /\ rbuf' = <<>>
  /\ nReaders' = nReaders + 1
  /\ UNCHANGED <<closeReader, readerClosed>>

\* connect() from newOpenMessage to the call of f.conn.Write: the OPEN
\* cannot be built, or is handed to Write
sendOpen ==
  /\ notif' = NoNotif
  /\ UNCHANGED openAdv
  /\ \/ Goto("connect_emit_openerr", "none")
     \/ Goto("connect_write", "none")

\* ------------------------------------------------------------- shut()
\* shut() up to the send on f.disable: returns at once when f.s is Disabled
ShutCall(c) ==
  /\ shutpc[c] = "out"
  /\ calls[c] < MaxCalls
  /\ calls' = [calls EXCEPT ![c] = @ + 1]
  /\ shutpc' = [shutpc EXCEPT ![c] = IF s = DisabledState THEN "out" ELSE "send"]
  /\ UNCHANGED <<cfg, driver, session, timers, quartet, dial, rdr, events, wire>>

\* ------------------------------------------------------------- loop()
HandlerEntry(state) ==
  CASE state = IdleState -> "idle"
    [] state = ConnectState -> "connect"
    [] state = ActiveState -> "active"
    [] state = OpenSentState -> "openSent"
    [] state = OpenConfirmState -> "openConfirm_select"
    [] state = EstablishedState -> "established_select"

\* loop() that emits the transition event only when the state differs from
\* the one of the last event
LoopEmit_SkipRepeat ==
  /\ pc = "loop_emit"
  /\ IF lastTrans = s
     THEN UNCHANGED <<events, entryEvents>>
     ELSE /\ evTick' = ~evTick
          /\ lastEvent' = "NeighborStateTransition"
          /\ lastTrans' = s
          /\ prevTrans' = lastTrans
          /\ entryEvents' = entryEvents + 1
  /\ pc' = IF s = IdleState THEN "idle"
           ELSE IF s = ConnectState THEN "connect"
           ELSE IF s = ActiveState THEN "active"
           ELSE IF s = OpenSentState THEN "openSent"
           ELSE IF s = OpenConfirmState THEN "openConfirm_select"
           ELSE "established_select"
  /\ UNCHANGED <<cfg, s, ret, session, timers, quartet, dial, rdr, shutters, wire>>

\* case f.events <- event: the transition event is sent, the handler of the
\* state is entered
LoopEmit ==
  /\ pc = "loop_emit"
  /\ evTick' = ~evTick
  /\ lastEvent' = "NeighborStateTransition"
  /\ lastTrans' = s
  /\ prevTrans' = lastTrans
  /\ entryEvents' = entryEvents + 1
  /\ pc' = HandlerEntry(s)
  /\ UNCHANGED <<cfg, s, ret, session, timers, quartet, dial, rdr, shutters, wire>>

\* case <-f.disable: the driver goes on to f.disable <- nil
LoopDisable ==
  /\ pc = "loop_emit"
  /\ DisableRecv
  /\ Goto("echo", "none")
  /\ UNCHANGED <<cfg, session, timers, quartet, dial, rdr, events, wire>>

\* loop() without the return after f.disable <- nil
LoopEcho_NoReturn ==
  /\ pc = "echo"
  /\ \E c \in DOMAIN shutpc :
       /\ shutpc[c] = "recv"
       /\ shutpc' = [shutpc EXCEPT ![c] = "out"]
  /\ Goto(IF s = DisabledState THEN "terminated" ELSE "loop_emit", "none")
  /\ UNCHANGED <<cfg, calls, session, timers, quartet, dial, rdr, events, wire>>

\* f.disable <- nil; return: a caller blocked in <-f.disable receives
LoopEcho ==
  /\ pc = "echo"
  /\ \E c \in DOMAIN shutpc :
       /\ shutpc[c] = "recv"
       /\ shutpc' = [shutpc EXCEPT ![c] = "out"]
  /\ Goto("terminated", "none")
  /\ UNCHANGED <<cfg, calls, session, timers, quartet, dial, rdr, events, wire>>

\* ------------------------------------------------------------- idle()
idle ==
  /\ pc = "idle"
  /\ Return(ConnectState)
  /\ UNCHANGED <<cfg, session, timers, quartet, dial, rdr, shutters, events, wire>>

\* ---------------------------------------------------------- connect()
\* up to the first select: fresh channels, the timer armed, the dial started
ConnectStart ==
  /\ pc = "connect"
  /\ closeReader' = FALSE
  /\ readerClosed' = FALSE
  /\ connectRetryTimer' = TimerReset(connectRetryTimer)
  /\ dial' = "dialing"
  /\ Goto("connect_select", "none")
  /\ UNCHANGED <<cfg, session, holdTimer, keepAliveTimer, conn, cleanups, rdr,
                 shutters, events, wire>>

\* cancel(): a dial still in progress will fail
cancel(d) == IF d = "dialing" THEN "cancelled" ELSE d

\* the dial goroutine: DialContext returns a connection, the goroutine
\* blocks in connChan <- conn
DialOk ==
  /\ dial = "dialing"
  /\ dial' = "conn"
  /\ UNCHANGED <<cfg, driver, session, timers, quartet, rdr, shutters, events, wire>>

\* DialContext returns an error (always so once the context is cancelled),
\* the goroutine blocks in connectErrorChan <- err
DialFail ==
  /\ dial \in {"dialing", "cancelled"}
  /\ dial' = "err"
  /\ UNCHANGED <<cfg, driver, session, timers, quartet, rdr, shutters, events, wire>>

\* case <-f.disable
ConnectDisable ==
  /\ pc = "connect_select"
  /\ DisableRecv
  /\ dial' = cancel(dial)
  /\ Return(DisabledState)
  /\ UNCHANGED <<cfg, session, timers, quartet, rdr, events, wire>>

\* case <-f.connectRetryTimer.C: cancel(), then the inner select
ConnectRetryFired ==
  /\ pc = "connect_select"
  /\ connectRetryTimer.pending
  /\ connectRetryTimer' = TimerRecv(connectRetryTimer)
  /\ dial' = cancel(dial)
  /\ Goto("connect_retry", "none")
  /\ UNCHANGED <<cfg, session, holdTimer, keepAliveTimer, quartet, rdr,
                 shutters, events, wire>>

\* inner select, case conn := <-connChan
ConnectRetryConn ==
  /\ pc = "connect_retry"
  /\ dial = "conn"
  /\ dial' = "none"
  /\ installConn
  /\ sendOpen
  /\ UNCHANGED <<cfg, holdTime, keepAliveTime, timers, shutters, events>>

\* inner select, case <-connectErrorChan
ConnectRetryErr ==
  /\ pc = "connect_retry"
  /\ dial = "err"
  /\ dial' = "none"
  /\ Return(ConnectState)
  /\ UNCHANGED <<cfg, session, timers, quartet, rdr, shutters, events, wire>>

\* case err := <-connectErrorChan
ConnectDialErr ==
  /\ pc = "connect_select"
  /\ dial = "err"
  /\ dial' = "none"
  /\ Goto("connect_emit_dialerr", "none")
  /\ UNCHANGED <<cfg, session, timers, quartet, rdr, shutters, events, wire>>

\* the event is sent; the timer is stopped; Active
ConnectEmitDialErr ==
  /\ pc = "connect_emit_dialerr"
  /\ Emit("NeighborErr")
  /\ IF CanStopDrain(connectRetryTimer)
     THEN /\ connectRetryTimer' = StopDrain(connectRetryTimer)
          /\ Return(ActiveState)
     ELSE /\ Blocked
          /\ UNCHANGED connectRetryTimer
  /\ UNCHANGED <<cfg, session, holdTimer, keepAliveTimer, quartet, dial, rdr,
                 shutters, wire>>

\* case <-f.disable while emitting
ConnectEmitDialErrDisable ==
  /\ pc = "connect_emit_dialerr"
  /\ DisableRecv
  /\ IF CanStopDrain(connectRetryTimer)
     THEN /\ connectRetryTimer' = StopDrain(connectRetryTimer)
          /\ Return(DisabledState)
     ELSE /\ Blocked
          /\ UNCHANGED connectRetryTimer
  /\ UNCHANGED <<cfg, session, holdTimer, keepAliveTimer, quartet, dial, rdr,
                 events, wire>>

\* case conn := <-connChan
ConnectConn ==
  /\ pc = "connect_select"
  /\ dial = "conn"
  /\ dial' = "none"
  /\ IF CanStopDrain(connectRetryTimer)
     THEN /\ connectRetryTimer' = StopDrain(connectRetryTimer)
          /\ installConn
          /\ sendOpen
     ELSE /\ Blocked
          /\ UNCHANGED <<connectRetryTimer, quartet, rdr, wire, acceptedHold, verr,
                         perr>>
  /\ UNCHANGED <<cfg, holdTime, keepAliveTime, holdTimer, keepAliveTimer,
                 shutters, events>>

\* f.conn.Write of the OPEN returns: with an error, or the OPEN is written
ConnectOpenWritten ==
  /\ pc = "connect_write"
  /\ \/ /\ Goto("connect_emit_writeerr", "none")
        /\ UNCHANGED openAdv
     \/ /\ Return(OpenSentState)
        /\ openAdv' = holdTime
  /\ UNCHANGED <<cfg, session, timers, quartet, dial, rdr, shutters, events,
                 notif>>

\* the OPEN could not be built: the event is sent, or disable is taken
ConnectEmitOpenErr ==
  /\ pc = "connect_emit_openerr"
  /\ Emit("NeighborErr")
  /\ cleanupConn(IdleState)
  /\ UNCHANGED <<cfg, session, timers, dial, rdr, shutters, wire>>

ConnectEmitOpenErrDisable ==
  /\ pc = "connect_emit_openerr"
  /\ DisableRecv
  /\ cleanupConn(DisabledState)
  /\ UNCHANGED <<cfg, session, timers, dial, rdr, events, wire>>

\* the OPEN could not be written
ConnectEmitWriteErr ==
  /\ pc = "connect_emit_writeerr"
  /\ Emit("NeighborErr")
  /\ cleanupConn(ConnectState)
  /\ UNCHANGED <<cfg, session, timers, dial, rdr, shutters, wire>>

ConnectEmitWriteErrDisable ==
  /\ pc = "connect_emit_writeerr"
  /\ DisableRecv
  /\ cleanupConn(DisabledState)
  /\ UNCHANGED <<cfg, session, timers, dial, rdr, events, wire>>

\* ----------------------------------------------------------- active()
ActiveStart ==
  /\ pc = "active"
  /\ connectRetryTimer' = TimerReset(connectRetryTimer)
  /\ Goto("active_select", "none")
  /\ UNCHANGED <<cfg, session, holdTimer, keepAliveTimer, quartet, dial, rdr,
                 shutters, events, wire>>

ActiveDisable ==
  /\ pc = "active_select"
  /\ DisableRecv
  /\ Return(DisabledState)
  /\ UNCHANGED <<cfg, session, timers, quartet, dial, rdr, events, wire>>

ActiveRetry ==
  /\ pc = "active_select"
  /\ connectRetryTimer.pending
  /\ connectRetryTimer' = TimerRecv(connectRetryTimer)
  /\ Return(ConnectState)
  /\ UNCHANGED <<cfg, session, holdTimer, keepAliveTimer, quartet, dial, rdr,
                 shutters, events, wire>>

\* ------------------------------------------------------ cleanupConn()
\* cleanupConn that does not wait for the reader
CleanupWait_NoWait ==
  /\ pc = "cleanup_wait"
  /\ Return(ret)
  /\ UNCHANGED <<cfg, session, timers, quartet, dial, rdr, shutters, events, wire>>

\* the second half: <-f.readerClosed; close(f.msgCh); the handler returns
CleanupWait ==
  /\ pc = "cleanup_wait"
  /\ readerClosed
  /\ Return(ret)
  /\ UNCHANGED <<cfg, session, timers, quartet, dial, rdr, shutters, events, wire>>

\* ------------------------------------------------------------ timers
ConnectRetryTimerFire ==
  /\ connectRetryTimer.armed
  /\ connectRetryTimer' = TimerFire(connectRetryTimer)
  /\ UNCHANGED <<cfg, driver, session, holdTimer, keepAliveTimer, quartet, dial,
                 rdr, shutters, events, wire>>

HoldTimerFire ==
  /\ holdTimer.armed
  /\ holdTimer' = TimerFire(holdTimer)
  /\ UNCHANGED <<cfg, driver, session, connectRetryTimer, keepAliveTimer, quartet,
                 dial, rdr, shutters, events, wire>>

KeepAliveTimerFire ==
  /\ keepAliveTimer.armed
  /\ keepAliveTimer' = TimerFire(keepAliveTimer)
  /\ UNCHANGED <<cfg, driver, session, connectRetryTimer, holdTimer, quartet,
                 dial, rdr, shutters, events, wire>>

\* -------------------------------------------------------------- read()
\* f.conn.Read and messagesFromBytes yield messages
ReaderRead ==
  /\ reader = "read"
  /\ ~closeReader
  /\ \E b \in Batches : rbuf' = b
  /\ reader' = "sendMsg"
  /\ UNCHANGED <<cfg, driver, session, timers, quartet, dial, nReaders, shutters,
                 events, wire>>

\* f.conn.Read or messagesFromBytes fails
ReaderReadErr ==
  /\ reader = "read"
  /\ ~closeReader
  /\ reader' = "sendErr"
  /\ UNCHANGED <<cfg, driver, session, timers, quartet, dial, rbuf, nReaders,
                 shutters, events, wire>>

\* the reader returns; deferred close(f.readerClosed)
readerReturns ==
  /\ reader' = "none"
  /\ rbuf' = <<>>
  /\ nReaders' = nReaders - 1
  /\ readerClosed' = TRUE

\* case <-f.closeReader (the connection is closed by then, so a blocked
\* Read fails and leads to the same select)
ReaderExit ==
  /\ reader \in {"read", "sendErr", "sendMsg"}
  /\ closeReader
  /\ readerReturns
  /\ UNCHANGED <<cfg, driver, session, timers, conn, closeReader, cleanups, dial,
                 shutters, events, wire>>

\* the driver receives from f.readerErr: the reader returns
recvReaderErr ==
  /\ reader = "sendErr"
  /\ readerReturns
  /\ UNCHANGED <<conn, closeReader, cleanups>>

\* the driver receives m from f.msgCh: the reader goes on
recvMsg ==
  /\ reader = "sendMsg"
  /\ rbuf' = Tail(rbuf)
  /\ reader' = IF Len(rbuf) = 1 THEN "read" ELSE "sendMsg"
  /\ UNCHANGED nReaders

\* -------------------------------------------------------- handleErr()
\* up to the select, or up to the f.conn.Write of sendNotification when
\* the error carries a NOTIFICATION payload n (NoNotif: a plain error)
handleErr(n, nextState) ==
  IF n = NoNotif
  THEN /\ UNCHANGED notif
       /\ Goto("handleErr_emit", nextState)
  ELSE /\ notif' = n
       /\ Goto("handleErr_write", nextState)

\* the Write of the NOTIFICATION returns: the driver reaches the select
HandleErrWritten ==
  /\ pc = "handleErr_write"
  /\ Goto("handleErr_emit", ret)
  /\ UNCHANGED <<cfg, session, timers, quartet, dial, rdr, shutters, events,
                 wire>>

HandleErrEmit ==
  /\ pc = "handleErr_emit"
  /\ Emit("NeighborErr")
  /\ drainAndCleanup(ret)
  /\ UNCHANGED <<cfg, session, connectRetryTimer, keepAliveTimer, dial, rdr,
                 shutters, wire>>

HandleErrDisable ==
  /\ pc = "handleErr_emit"
  /\ DisableRecv
  /\ drainAndCleanup(DisabledState)
  /\ UNCHANGED <<cfg, session, connectRetryTimer, keepAliveTimer, dial, rdr,
                 events, wire>>

\* ------------------------------------------- handleHoldTimerExpired()
\* case <-f.holdTimer.C of a handler, up to the f.conn.Write of
\* sendHoldTimerExpired
handleHoldTimerExpired(nextState) ==
  /\ holdTimer.pending
  /\ holdTimer' = TimerRecv(holdTimer)
  /\ notif' = <<NotifErrCodeHoldTimerExpired, 0>>
  /\ perr' = "hold"
  /\ Goto("holdExpired_write", nextState)
  /\ UNCHANGED <<cfg, negotiated, connectRetryTimer, keepAliveTimer, quartet, dial,
                 rdr, shutters, events, openAdv>>

\* the Write of the NOTIFICATION returns: the driver reaches the select
HoldExpiredWritten ==
  /\ pc = "holdExpired_write"
  /\ Goto("holdExpired_emit", ret)
  /\ UNCHANGED <<cfg, session, timers, quartet, dial, rdr, shutters, events,
                 wire>>

HoldExpiredEmit ==
  /\ pc = "holdExpired_emit"
  /\ Emit("NeighborHoldTimerExpired")
  /\ cleanupConn(ret)
  /\ UNCHANGED <<cfg, session, timers, dial, rdr, shutters, wire>>

HoldExpiredDisable ==
  /\ pc = "holdExpired_emit"
  /\ DisableRecv
  /\ cleanupConn(DisabledState)
  /\ UNCHANGED <<cfg, session, timers, dial, rdr, events, wire>>

\* ------------------------------ branches shared by the session handlers
\* case <-f.disable: up to the f.conn.Write of sendCease
sessionDisable ==
  /\ DisableRecv
  /\ notif' = <<NotifErrCodeCease, 0>>
  /\ Goto("cease_write", DisabledState)
  /\ UNCHANGED <<cfg, session, timers, quartet, dial, rdr, events, openAdv>>

\* the Write of the Cease returns: drainHoldTimer, cleanupConn
CeaseWritten ==
  /\ pc = "cease_write"
  /\ drainAndCleanup(DisabledState)
  /\ UNCHANGED <<cfg, session, connectRetryTimer, keepAliveTimer, dial, rdr,
                 shutters, events, wire>>

\* the errors the reader reports: an error of f.conn.Read, which carries
\* no NOTIFICATION payload, or an error of messagesFromBytes, which may
\* carry one (a message header error)
readerErrNotifs == {NoNotif, <<NotifErrCodeMessageHeader, 0>>}

\* case err := <-f.readerErr: handleErr(err, nextState)
sessionReaderErr(nextState) ==
  /\ recvReaderErr
  /\ \E n \in readerErrNotifs : handleErr(n, nextState)
  /\ UNCHANGED <<cfg, session, timers, dial, shutters, events, openAdv>>

\* drainAndResetHoldTimer
drainAndResetHoldTimer(t) == TimerReset(StopDrain(t))

\* --------------------------------------------------------- openSent()
OpenSentStart ==
  /\ pc = "openSent"
  /\ holdTimer' = TimerReset(holdTimer)
  /\ Goto("openSent_select", "none")
  /\ UNCHANGED <<cfg, session, connectRetryTimer, keepAliveTimer, quartet, dial,
                 rdr, shutters, events, wire>>

OpenSentDisable ==
  /\ pc = "openSent_select"
  /\ sessionDisable

OpenSentReaderErr ==
  /\ pc = "openSent_select"
  /\ sessionReaderErr(ActiveState)

OpenSentHoldExpired ==
  /\ pc = "openSent_select"
  /\ handleHoldTimerExpired(IdleState)

\* case m := <-f.msgCh, an OPEN: validateOpen, then handleErr or the
\* f.conn.Write of sendKeepAlive
OpenSentOpen ==
  /\ pc = "openSent_select"
  /\ reader = "sendMsg"
  /\ Head(rbuf).type = "open"
  /\ recvMsg
  /\ LET res == validateOpen(Head(rbuf), cfg.ASN, holdTime, keepAliveTime) IN
     /\ holdTime' = res.holdTime
     /\ keepAliveTime' = res.keepAliveTime
     /\ verr' = res.err
     /\ perr' = IF res.err # NilErr THEN "open" ELSE perr
     /\ IF res.err # NilErr
        THEN /\ handleErr(<<res.err.code, res.err.subcode>>, IdleState)
             /\ UNCHANGED acceptedHold
        ELSE /\ acceptedHold' = Head(rbuf).holdTime
             /\ Goto("openSent_write_ka", "none")
             /\ UNCHANGED notif
  /\ UNCHANGED <<cfg, timers, quartet, dial, shutters, events, openAdv>>

\* the Write of the KEEPALIVE returns: with an error (handleErr), or
\* drainAndResetHoldTimer and OpenConfirm
OpenSentKeepAliveWritten ==
  /\ pc = "openSent_write_ka"
  /\ \/ /\ handleErr(NoNotif, IdleState)
        /\ UNCHANGED holdTimer
     \/ /\ UNCHANGED notif
        /\ IF CanStopDrain(holdTimer)
           THEN /\ holdTimer' = drainAndResetHoldTimer(holdTimer)
                /\ Return(OpenConfirmState)
           ELSE /\ Blocked
                /\ UNCHANGED holdTimer
  /\ UNCHANGED <<cfg, session, connectRetryTimer, keepAliveTimer, quartet, dial,
                 rdr, shutters, events, openAdv>>

\* a NOTIFICATION: the event is emitted next
OpenSentNotification ==
  /\ pc = "openSent_select"
  /\ reader = "sendMsg"
  /\ Head(rbuf).type = "notification"
  /\ recvMsg
  /\ Goto("openSent_emit_notif", "none")
  /\ UNCHANGED <<cfg, session, timers, quartet, dial, shutters, events, wire>>

\* any other message: drainHoldTimer, cleanupConn, Idle
OpenSentOther ==
  /\ pc = "openSent_select"
  /\ reader = "sendMsg"
  /\ Head(rbuf).type \notin {"open", "notification"}
  /\ recvMsg
  /\ perr' = "type"
  /\ drainAndCleanup(IdleState)
  /\ UNCHANGED <<cfg, negotiated, connectRetryTimer, keepAliveTimer, dial, shutters,
                 events, wire>>

OpenSentEmitNotif ==
  /\ pc = "openSent_emit_notif"
  /\ Emit("NeighborNotificationReceived")
  /\ drainAndCleanup(IdleState)
  /\ UNCHANGED <<cfg, session, connectRetryTimer, keepAliveTimer, dial, rdr,
                 shutters, wire>>

OpenSentEmitNotifDisable ==
  /\ pc = "openSent_emit_notif"
  /\ DisableRecv
  /\ drainAndCleanup(DisabledState)
  /\ UNCHANGED <<cfg, session, connectRetryTimer, keepAliveTimer, dial, rdr,
                 events, wire>>

\* ------------------------------------------------------ openConfirm()
OpenConfirmDisable ==
  /\ pc = "openConfirm_select"
  /\ sessionDisable

OpenConfirmReaderErr ==
  /\ pc = "openConfirm_select"
  /\ sessionReaderErr(IdleState)

OpenConfirmHoldExpired ==
  /\ pc = "openConfirm_select"
  /\ handleHoldTimerExpired(IdleState)

\* a KEEPALIVE: drainAndResetHoldTimer, keepAliveTimer.Reset, Established
OpenConfirmKeepAlive ==
  /\ pc = "openConfirm_select"
  /\ reader = "sendMsg"
  /\ Head(rbuf).type = "keepalive"
  /\ recvMsg
  /\ IF CanStopDrain(holdTimer)
     THEN /\ holdTimer' = drainAndResetHoldTimer(holdTimer)
          /\ keepAliveTimer' = TimerReset(keepAliveTimer)
          /\ Return(EstablishedState)
     ELSE /\ Blocked
          /\ UNCHANGED <<holdTimer, keepAliveTimer>>
  /\ UNCHANGED <<cfg, session, connectRetryTimer, quartet, dial, shutters,
                 events, wire>>

\* anything else: handleErr with a plain error
OpenConfirmOther ==
  /\ pc = "openConfirm_select"
  /\ reader = "sendMsg"
  /\ Head(rbuf).type # "keepalive"
  /\ recvMsg
  /\ perr' = IF Head(rbuf).type = "notification" THEN perr ELSE "type"
  /\ handleErr(NoNotif, IdleState)
  /\ UNCHANGED <<cfg, negotiated, timers, quartet, dial, shutters, events, openAdv>>

\* ------------------------------------------------------ established()
EstablishedDisable ==
  /\ pc = "established_select"
  /\ sessionDisable

EstablishedReaderErr ==
  /\ pc = "established_select"
  /\ sessionReaderErr(IdleState)

EstablishedHoldExpired ==
  /\ pc = "established_select"
  /\ handleHoldTimerExpired(IdleState)

\* case <-f.keepAliveTimer.C: up to the f.conn.Write of sendKeepAlive
EstablishedKeepAliveTimer ==
  /\ pc = "established_select"
  /\ keepAliveTimer.pending
  /\ keepAliveTimer' = TimerRecv(keepAliveTimer)
  /\ Goto("established_write_ka", "none")
  /\ UNCHANGED <<cfg, session, connectRetryTimer, holdTimer, quartet, dial, rdr,
                 shutters, events, wire>>

\* the Write of the KEEPALIVE returns: with an error (handleErr), or the
\* timer is re-armed and the driver is back in the select
EstablishedKeepAliveWritten ==
  /\ pc = "established_write_ka"
  /\ \/ /\ handleErr(NoNotif, IdleState)
        /\ UNCHANGED keepAliveTimer
     \/ /\ keepAliveTimer' = TimerReset(keepAliveTimer)
        /\ Goto("established_select", "none")
        /\ UNCHANGED notif
  /\ UNCHANGED <<cfg, session, connectRetryTimer, holdTimer, quartet, dial, rdr,
                 shutters, events, openAdv>>

EstablishedKeepAlive ==
  /\ pc = "established_select"
  /\ reader = "sendMsg"
  /\ Head(rbuf).type = "keepalive"
  /\ recvMsg
  /\ IF CanStopDrain(holdTimer)
     THEN /\ holdTimer' = drainAndResetHoldTimer(holdTimer)
          /\ UNCHANGED driver
     ELSE /\ Blocked
          /\ UNCHANGED holdTimer
  /\ UNCHANGED <<cfg, session, connectRetryTimer, keepAliveTimer, quartet, dial,
                 shutters, events, wire>>

EstablishedUpdate ==
  /\ pc = "established_select"
  /\ reader = "sendMsg"
  /\ Head(rbuf).type = "update"
  /\ recvMsg
  /\ IF CanStopDrain(holdTimer)
     THEN /\ holdTimer' = drainAndResetHoldTimer(holdTimer)
          /\ Goto("established_emit_update", "none")
     ELSE /\ Blocked
          /\ UNCHANGED holdTimer
  /\ UNCHANGED <<cfg, session, connectRetryTimer, keepAliveTimer, quartet, dial,
                 shutters, events, wire>>

EstablishedNotification ==
  /\ pc = "established_select"
  /\ reader = "sendMsg"
  /\ Head(rbuf).type = "notification"
  /\ recvMsg
  /\ Goto("established_emit_notif", "none")
  /\ UNCHANGED <<cfg, session, timers, quartet, dial, shutters, events, wire>>

EstablishedOpen ==
  /\ pc = "established_select"
  /\ reader = "sendMsg"
  /\ Head(rbuf).type = "open"
  /\ recvMsg
  /\ perr' = "type"
  /\ Goto("established_emit_open", "none")
  /\ UNCHANGED <<cfg, negotiated, timers, quartet, dial, shutters, events, wire>>

EstablishedEmitUpdate ==
  /\ pc = "established_emit_update"
  /\ Emit("NeighborUpdateReceived")
  /\ Goto("established_select", "none")
  /\ UNCHANGED <<cfg, session, timers, quartet, dial, rdr, shutters, wire>>

EstablishedEmitUpdateDisable ==
  /\ pc = "established_emit_update"
  /\ sessionDisable

EstablishedEmitNotif ==
  /\ pc = "established_emit_notif"
  /\ Emit("NeighborNotificationReceived")
  /\ drainAndCleanup(IdleState)
  /\ UNCHANGED <<cfg, session, connectRetryTimer, keepAliveTimer, dial, rdr,
                 shutters, wire>>

EstablishedEmitNotifDisable ==
  /\ pc = "established_emit_notif"
  /\ DisableRecv
  /\ drainAndCleanup(DisabledState)
  /\ UNCHANGED <<cfg, session, connectRetryTimer, keepAliveTimer, dial, rdr,
                 events, wire>>

\* the event is sent, then the NOTIFICATION (bad message type) is handed
\* to f.conn.Write
EstablishedEmitOpen ==
  /\ pc = "established_emit_open"
  /\ Emit("NeighborErr")
  /\ notif' = <<NotifErrCodeMessageHeader, NotifErrSubcodeBadType>>
  /\ Goto("established_write_open", IdleState)
  /\ UNCHANGED <<cfg, session, timers, quartet, dial, rdr, shutters, openAdv>>

\* the Write of the NOTIFICATION returns: drainHoldTimer, cleanupConn
EstablishedOpenWritten ==
  /\ pc = "established_write_open"
  /\ drainAndCleanup(IdleState)
  /\ UNCHANGED <<cfg, session, connectRetryTimer, keepAliveTimer, dial, rdr,
                 shutters, events, wire>>

EstablishedEmitOpenDisable ==
  /\ pc = "established_emit_open"
  /\ DisableRecv
  /\ drainAndCleanup(DisabledState)
  /\ UNCHANGED <<cfg, session, connectRetryTimer, keepAliveTimer, dial, rdr,
                 events, wire>>

\* ------------------------------------------------------ specification
DriverDisable ==
  \/ LoopDisable \/ ConnectDisable \/ ConnectEmitDialErrDisable
  \/ ConnectEmitOpenErrDisable \/ ConnectEmitWriteErrDisable \/ ActiveDisable
  \/ HandleErrDisable \/ HoldExpiredDisable
  \/ OpenSentDisable \/ OpenSentEmitNotifDisable \/ OpenConfirmDisable
  \/ EstablishedDisable \/ EstablishedEmitUpdateDisable
  \/ EstablishedEmitNotifDisable \/ EstablishedEmitOpenDisable

\* the selects whose case f.events <- event is taken: the speaker decides
DriverEmit ==
  \/ LoopEmit \/ ConnectEmitDialErr \/ ConnectEmitOpenErr \/ ConnectEmitWriteErr
  \/ HandleErrEmit \/ HoldExpiredEmit \/ OpenSentEmitNotif
  \/ EstablishedEmitUpdate \/ EstablishedEmitNotif \/ EstablishedEmitOpen

\* every other step of the driver
DriverInternal ==
  \/ LoopEcho \/ idle
  \/ ConnectStart \/ ConnectRetryFired \/ ConnectRetryConn \/ ConnectRetryErr
  \/ ConnectDialErr \/ ConnectConn
  \/ ActiveStart \/ ActiveRetry \/ CleanupWait
  \/ OpenSentStart \/ OpenSentReaderErr \/ OpenSentHoldExpired \/ OpenSentOpen
  \/ OpenSentNotification \/ OpenSentOther
  \/ OpenConfirmReaderErr \/ OpenConfirmHoldExpired \/ OpenConfirmKeepAlive
  \/ OpenConfirmOther
  \/ EstablishedReaderErr \/ EstablishedHoldExpired \/ EstablishedKeepAliveTimer
  \/ EstablishedKeepAlive \/ EstablishedUpdate \/ EstablishedNotification
  \/ EstablishedOpen

\* a f.conn.Write of the driver returns: the peer, or the failure of the
\* connection, decides when
WriteReturn ==
  \/ ConnectOpenWritten \/ OpenSentKeepAliveWritten \/ EstablishedKeepAliveWritten
  \/ HandleErrWritten \/ HoldExpiredWritten \/ CeaseWritten
  \/ EstablishedOpenWritten

Environment ==
  \/ DialOk \/ DialFail
  \/ ConnectRetryTimerFire \/ HoldTimerFire \/ KeepAliveTimerFire
  \/ ReaderRead \/ ReaderReadErr \/ ReaderExit

Next ==
  \/ \E c \in DOMAIN shutpc : ShutCall(c)
  \/ DriverDisable
  \/ DriverEmit
  \/ DriverInternal
  \/ WriteReturn
  \/ Environment

Spec == Init /\ [][Next]_vars

\* Scheduling: the driver, a caller and the reader run when they can; a
\* select chooses among its ready cases at random, so a disable case that is
\* ready again and again is taken; a cancelled dial fails; a reader whose
\* connection is closed returns.  Nothing is assumed of the speaker (it may
\* never read f.events), of the timers or of the peer: no Write of the
\* driver has a deadline, so WriteReturn carries no fairness.
DialCancelledFail == dial = "cancelled" /\ DialFail
FairSpec ==
  /\ Spec
  /\ WF_vars(DriverInternal)
  /\ SF_vars(DriverDisable)
  /\ WF_vars(DialCancelledFail)
  /\ WF_vars(ReaderExit)

\* ------------------------------------- several callers of shut()
\* shut() called from two goroutines on the same FSM.  f.disable is one
\* unbuffered channel used in both directions: the receive of a caller
\* that has sent can be matched by the send of another caller.
MultiCallers == {1, 2}

InitMulti ==
  /\ cfg \in Configs
  /\ s = IdleState
  /\ holdTime = cfg.HoldTime
  /\ keepAliveTime = cfg.HoldTime \div 3
  /\ connectRetryTimer = Dormant /\ holdTimer = Dormant /\ keepAliveTimer = Dormant
  /\ conn = "nil" /\ closeReader = FALSE /\ readerClosed = FALSE
  /\ pc = "loop_emit" /\ ret = "none"
  /\ dial = "none"
  /\ reader = "none" /\ rbuf = <<>> /\ nReaders = 0
  /\ shutpc = [c \in MultiCallers |-> "out"]
  /\ calls = [c \in MultiCallers |-> 0]
  /\ evTick = FALSE /\ lastEvent = "none" /\ lastTrans = "none" /\ prevTrans = "none"
  /\ entryEvents = 0
  /\ notif = NoNotif /\ openAdv = 0 /\ acceptedHold = 0 /\ cleanups = 0
  /\ verr = NilErr
  /\ perr = "none"

\* <-f.disable of caller a receives what caller b sends with f.disable <- nil
ShutCrossTalk ==
  \E a, b \in DOMAIN shutpc :
    /\ shutpc[a] = "recv"
    /\ shutpc[b] = "send"
    /\ shutpc' = [shutpc EXCEPT ![a] = "out", ![b] = "recv"]
    /\ UNCHANGED <<cfg, calls, driver, session, timers, quartet, dial, rdr,
                   events, wire>>

NextMulti == Next \/ ShutCrossTalk

SpecMulti == InitMulti /\ [][NextMulti]_vars

\* ------------------------------------- the validator on its own
\* validateOpen called directly, as TestValidateOpenMessage does, on an FSM
\* fresh from newFSM or carrying the hold time of an earlier session.
\* The OPEN under validation is held in rbuf; pc is "validate" before the
\* call and "validated" after it.
FourOctetASN == 523456
ValidatorASNs == {ConfigASN, FourOctetASN}
ValidatorConfigs == {[ASN |-> a, HoldTime |-> h] : a \in ValidatorASNs, h \in ConfigHolds}
ValidatorOptParams ==
  {<<>>,
   <<otherOptParam>>,
   <<capabilityOptParam(<<capMultiproto(BgpLsAFI, BgpLsSAFI)>>)>>,
   <<capabilityOptParam(<<capMultiproto(BgpLsAFI, 1)>>)>>,
   <<capabilityOptParam(<<capMultiproto(BgpLsAFI, BgpLsSAFI)>>), otherOptParam>>}
  \cup UNION {
    {goodOptParams(a),
     <<capabilityOptParam(<<capFourOctetAs(a)>>)>>,
     <<capabilityOptParam(<<capFourOctetAs(a)>>), otherOptParam>>,
     <<otherOptParam, capabilityOptParam(<<capFourOctetAs(a)>>)>>,
     <<capabilityOptParam(<<capUnknown, capFourOctetAs(a), capUnknown,
                            capMultiproto(BgpLsAFI, BgpLsSAFI)>>)>>,
     <<capabilityOptParam(<<capMultiproto(BgpLsAFI, BgpLsSAFI), capUnknown>>),
       capabilityOptParam(<<capFourOctetAs(a)>>)>>} : a \in ValidatorASNs}
ValidatorOpens ==
  {openMessage(v, a, h, id, ps) :
     v \in {4, 5},
     a \in {ConfigASN, FourOctetASN % Uint16Mod, asTrans, 1},
     h \in {2, 3, MaxHold - 3},
     id \in {0, 1},
     ps \in ValidatorOptParams}

InitValidate ==
  /\ cfg \in ValidatorConfigs
  /\ s = IdleState
  /\ holdTime \in {cfg.HoldTime} \cup {h \in PeerHolds : h < cfg.HoldTime}
  /\ keepAliveTime = holdTime \div 3
  /\ connectRetryTimer = Dormant /\ holdTimer = Dormant /\ keepAliveTimer = Dormant
  /\ conn = "nil" /\ closeReader = FALSE /\ readerClosed = FALSE
  /\ pc = "validate" /\ ret = "none"
  /\ dial = "none"
  /\ reader = "none" /\ nReaders = 0
  /\ \E o \in ValidatorOpens : rbuf = <<o>>
  /\ shutpc = [c \in Callers |-> "out"]
  /\ calls = [c \in Callers |-> 0]
  /\ evTick = FALSE /\ lastEvent = "none" /\ lastTrans = "none" /\ prevTrans = "none"
  /\ entryEvents = 0
  /\ notif = NoNotif /\ openAdv = 0 /\ acceptedHold = 0 /\ cleanups = 0
  /\ verr = NilErr
  /\ perr = "none"

\* err := f.validateOpen(open)
ValidateOpenCall ==
  /\ pc = "validate"
  /\ LET res == validateOpen(Head(rbuf), cfg.ASN, holdTime, keepAliveTime) IN
     /\ holdTime' = res.holdTime
     /\ keepAliveTime' = res.keepAliveTime
     /\ verr' = res.err
     /\ acceptedHold' = IF res.err = NilErr THEN Head(rbuf).holdTime ELSE acceptedHold
  /\ pc' = "validated"
  /\ UNCHANGED <<cfg, s, ret, entryEvents, perr, timers, quartet, dial, rdr, shutters,
                 events, wire>>

NextValidate == ValidateOpenCall

SpecValidate == InitValidate /\ [][NextValidate]_vars

\* ------------------------------------------------------------ claims
\* some call of shut() has returned
returned(c) == IF shutpc[c] = "out" THEN calls[c] ELSE calls[c] - 1
ShutReturned == \E c \in DOMAIN shutpc : returned(c) >= 1

\* the allowed-edges table of the transition guard, as a set of pairs
AllowedEdges ==
  {<<a, DisabledState>> : a \in FSMState} \cup {<<a, IdleState>> : a \in FSMState}
  \cup {<<a, ConnectState>> : a \in {IdleState, ConnectState, ActiveState}}
  \cup {<<a, ActiveState>> : a \in {ConnectState, ActiveState, OpenSentState}}
  \cup {<<a, OpenSentState>> : a \in {ConnectState, ActiveState}}
  \cup {<<a, OpenConfirmState>> : a \in {OpenSentState, OpenConfirmState}}
  \cup {<<a, EstablishedState>> : a \in {OpenConfirmState, EstablishedState}}

\* C1: no handler returns a state the transition guard rejects (the driver
\* never panics), and two consecutive NeighborStateTransition events form an
\* allowed edge.
C1_TransitionsAllowed ==
  /\ pc # "panic"
  /\ prevTrans # "none" => <<prevTrans, lastTrans>> \in AllowedEdges

\* a reader error in OpenSent has led to Active, and the event was emitted
C1_Witness == prevTrans = OpenSentState /\ lastTrans = ActiveState

\* C2: whenever a call of shut() has returned, state() is Disabled.
C2_ShutReturnedDisabled == ShutReturned => s = DisabledState

\* C3: a call of shut() made after an earlier call returned never blocks
\* for ever: it is never sending on f.disable when the driver has returned.
C3_LaterShutReturns ==
  \A c \in DOMAIN shutpc :
    ~(calls[c] >= 2 /\ shutpc[c] = "send" /\ pc = "terminated")

\* C4: after shut() returns no reader is live and no connection a dial
\* produced is open, installed or still in the hands of the dial goroutine.
C4_ShutReturnedNoReaderNoSocket ==
  ShutReturned => nReaders = 0 /\ conn # "open" /\ dial # "conn"

\* C5: after shut() returns none of the three timers is armed.
C5_ShutReturnedNoTimerArmed ==
  ShutReturned =>
    ~connectRetryTimer.armed /\ ~holdTimer.armed /\ ~keepAliveTimer.armed

\* C6: with a single caller, no event is sent on f.events once shut() has
\* returned.
C6_NoEventAfterShut == [][ShutReturned => evTick' = evTick]_vars

\* shut() has returned from an FSM that had delivered an UPDATE event
C6_Witness ==
  ShutReturned /\ pc = "terminated" /\ lastEvent = "NeighborUpdateReceived"

\* C7: a call of shut() made while the driver runs returns, whatever the
\* state and the suspension point of the driver, even when f.events is
\* never read.
C7_ShutReturns ==
  \A c \in Callers :
    (shutpc[c] # "out" /\ pc # "terminated") ~> (shutpc[c] = "out")

\* C8: at most one reader goroutine is live.
C8_AtMostOneReader == nReaders \in {0, 1}

\* a reader is live in Connect after an earlier session reached Established
\* (only that session armed the KeepAliveTimer or left its expiry)
C8_Witness ==
  /\ nReaders = 1
  /\ s = ConnectState
  /\ (keepAliveTimer.armed \/ keepAliveTimer.pending)

Min(a, b) == IF a < b THEN a ELSE b

\* C9: once validateOpen has accepted an OPEN on the current connection,
\* f.holdTime is the smaller of the configured hold time and the hold time
\* of that OPEN.
C9_NegotiatedIsMin ==
  acceptedHold # 0 => holdTime = Min(cfg.HoldTime, acceptedHold)

\* C10 as stated: every entry into a non-Disabled state has had its one
\* NeighborStateTransition event once the driver is past the emitting select.
C10_ExactlyOnePerEntry ==
  (s # DisabledState /\ pc # "loop_emit") => entryEvents = 1

\* C10 amended: per entry into a non-Disabled state at most one
\* NeighborStateTransition event is emitted; it is emitted, carrying that
\* state, before the handler of the state starts; an entry has none only
\* while the driver is in the emitting select or after disable preempted
\* that select; none is emitted for Disabled.
C10_OnePerEntryUnlessPreempted ==
  /\ entryEvents \in {0, 1}
  /\ lastTrans # DisabledState
  /\ s = DisabledState => entryEvents = 0
  /\ (s # DisabledState /\ pc \notin {"loop_emit", "echo", "terminated"}) =>
       (entryEvents = 1 /\ lastTrans = s)
  /\ (s # DisabledState /\ entryEvents = 0 /\ pc # "loop_emit") =>
       (ShutReturned \/ \E c \in DOMAIN shutpc : shutpc[c] = "recv")

\* the handler of Connect runs again after a failed retry, and the second
\* entry into Connect had its own event
C10_Witness ==
  /\ prevTrans = ConnectState /\ lastTrans = ConnectState
  /\ pc = "connect_select" /\ entryEvents = 1


\* ---------------------------------------- claims about the validator
\* the OPEN validateOpen was called with
validated == Head(rbuf)

\* what an OPEN violates, rule by rule, for a neighbor with ASN a
capsOf(msg) ==
  {msg.optParams[i].caps[j] :
     <<i, j>> \in {x \in (DOMAIN msg.optParams) \X (1..4) :
                    /\ msg.optParams[x[1]].kind = "capability"
                    /\ x[2] \in DOMAIN msg.optParams[x[1]].caps}}
badVersion(msg) == msg.version # 4
badTwoOctetAS(msg, a) == msg.asn # asTrans /\ msg.asn # a % Uint16Mod
badHoldTime(msg) == msg.holdTime < 3
badBgpID(msg) == msg.bgpID = 0
badOptParam(p) == p.kind # "capability"
badCaps(p, a) ==
  /\ p.kind = "capability"
  /\ \E j \in DOMAIN p.caps : p.caps[j].kind = "fourOctetAs" /\ p.caps[j].asn # a
noBgpLs(msg) ==
  ~\E c \in capsOf(msg) : c.kind = "multiproto" /\ c.afi = BgpLsAFI /\ c.safi = BgpLsSAFI
noFourOctetAS(msg) ==
  msg.asn = asTrans /\ ~\E c \in capsOf(msg) : c.kind = "fourOctetAs"

openError(subcode, data) == [code |-> 2, subcode |-> subcode, data |-> data]
bgpLsCapBytes == <<1, 4, 64, 4, 0, 71>>

\* the error of the earliest violated rule, the rules taken in the order
\* version, two-octet AS, hold time, BGP ID, optional-parameter type,
\* capabilities, BGP-LS present, four-octet AS present
listedOrderError(msg, a) ==
  IF badVersion(msg) THEN openError(1, <<0, 4>>)
  ELSE IF badTwoOctetAS(msg, a) THEN openError(2, <<>>)
  ELSE IF badHoldTime(msg) THEN openError(6, <<>>)
  ELSE IF badBgpID(msg) THEN openError(3, <<>>)
  ELSE IF \E i \in DOMAIN msg.optParams : badOptParam(msg.optParams[i])
       THEN openError(4, <<>>)
  ELSE IF \E i \in DOMAIN msg.optParams : badCaps(msg.optParams[i], a)
       THEN openError(2, <<>>)
  ELSE IF noBgpLs(msg) THEN openError(7, bgpLsCapBytes)
  ELSE IF noFourOctetAS(msg) THEN openError(2, <<>>)
  ELSE NilErr

\* the same, with the optional-parameter type rule and the capability rule
\* applied together, parameter by parameter: the first parameter that
\* violates one of the two decides
perParamOrderError(msg, a) ==
  LET bad == {i \in DOMAIN msg.optParams :
                badOptParam(msg.optParams[i]) \/ badCaps(msg.optParams[i], a)}
      first == CHOOSE i \in bad : \A k \in bad : i <= k
  IN
  IF badVersion(msg) THEN openError(1, <<0, 4>>)
  ELSE IF badTwoOctetAS(msg, a) THEN openError(2, <<>>)
  ELSE IF badHoldTime(msg) THEN openError(6, <<>>)
  ELSE IF badBgpID(msg) THEN openError(3, <<>>)
  ELSE IF bad # {}
       THEN IF badOptParam(msg.optParams[first]) THEN openError(4, <<>>)
            ELSE openError(2, <<>>)
  ELSE IF noBgpLs(msg) THEN openError(7, bgpLsCapBytes)
  ELSE IF noFourOctetAS(msg) THEN openError(2, <<>>)
  ELSE NilErr

\* C11 as stated: for an OPEN that violates a rule, validateOpen returns the
\* error of the earliest violated rule in the listed order.
C11_ErrorOfEarliestRule ==
  (pc = "validated" /\ listedOrderError(validated, cfg.ASN) # NilErr) =>
     verr = listedOrderError(validated, cfg.ASN)

\* C11 amended: for an OPEN that violates a rule, validateOpen returns the
\* error of the earliest violated rule, where the optional-parameter type
\* rule and the capability rule count as one rule applied parameter by
\* parameter in the order of the parameters of the OPEN.
C11_ErrorOfEarliestRulePerParam ==
  (pc = "validated" /\ perParamOrderError(validated, cfg.ASN) # NilErr) =>
     verr = perParamOrderError(validated, cfg.ASN)

\* an OPEN whose first parameter holds a Four-Octet-AS capability of another
\* AS and whose second parameter is not a capability has been rejected with
\* BadPeerAS
C11_Witness ==
  /\ pc = "validated"
  /\ ~badVersion(validated) /\ ~badTwoOctetAS(validated, cfg.ASN)
  /\ ~badHoldTime(validated) /\ ~badBgpID(validated)
  /\ Len(validated.optParams) = 2
  /\ badCaps(validated.optParams[1], cfg.ASN)
  /\ badOptParam(validated.optParams[2])
  /\ verr = openError(2, <<>>)

\* the AS field of an OPEN of a speaker whose ASN is a
ownASField(a) == IF a <= 65535 THEN a ELSE asTrans
\* msg is an OPEN built the way this speaker builds its own for ASN a,
\* possibly with unknown capabilities added to its Capability parameter
builtFor(msg, a) ==
  /\ msg.version = 4
  /\ msg.asn = ownASField(a)
  /\ msg.holdTime >= 3
  /\ msg.bgpID # 0
  /\ Len(msg.optParams) = 1
  /\ msg.optParams[1].kind = "capability"
  /\ SelectSeq(msg.optParams[1].caps, LAMBDA c : c.kind # "unknown")
       = <<capFourOctetAs(a), capMultiproto(BgpLsAFI, BgpLsSAFI)>>

\* C12: an OPEN built the way this speaker builds its own for the expected
\* peer ASN is accepted, with or without unknown capabilities added.
C12_OwnOpenAccepted ==
  (pc = "validated" /\ builtFor(validated, cfg.ASN)) => verr = NilErr

\* such an OPEN of a four-octet AS, unknown capabilities mixed in, was
\* accepted
C12_Witness ==
  /\ pc = "validated"
  /\ cfg.ASN > 65535
  /\ builtFor(validated, cfg.ASN)
  /\ Len(validated.optParams[1].caps) > 2
  /\ verr = NilErr
  /\ acceptedHold = validated.holdTime

\* C13: once the driver has detected a protocol error on a connection (a
\* rejected OPEN, a message of the wrong type, a HoldTimer expiry), the
\* connection is closed only after a NOTIFICATION was written on it; and a
\* handler that is not preempted by disable has sent NeighborErr or
\* NeighborHoldTimerExpired and returns Idle.
C13_NotificationBeforeTeardown ==
  perr # "none" =>
    /\ conn = "closed" => notif # NoNotif
    /\ (pc = "cleanup_wait" /\ ret # DisabledState) =>
         /\ ret = IdleState
         /\ lastEvent \in {"NeighborErr", "NeighborHoldTimerExpired"}

\* the driver receives the disable signal in this step
disableReceived ==
  \E c \in DOMAIN shutpc : shutpc[c] = "send" /\ shutpc'[c] = "recv"

\* C14: the step in which the driver receives the disable signal while a
\* connection is installed hands a Cease NOTIFICATION to the connection,
\* and the step that follows the Cease leaves HoldTimer neither armed nor
\* pending and closes the connection and the reader's close channel.
C14_DisableCeasesAndTearsDown ==
  [][/\ (disableReceived /\ conn = "open") =>
          (pc' = "cease_write" /\ notif' = <<NotifErrCodeCease, 0>>)
     /\ (pc = "cease_write" /\ pc' # pc) =>
          (holdTimer' = Dormant /\ conn' = "closed" /\ closeReader')]_vars

\* C15: in Established an expiry waiting in the channel of KeepAliveTimer
\* is the expiry of the current arming: the timer is never armed while its
\* channel still holds an expiry of an earlier arming.
C15_NoStaleKeepAliveExpiry ==
  s = EstablishedState => ~(keepAliveTimer.armed /\ keepAliveTimer.pending)

\* C16: cleanupConn runs exactly once for a connection the driver closes,
\* never twice and never without a connection (the driver neither panics
\* nor blocks in a drain), and a closed connection leaves HoldTimer neither
\* armed nor pending; so HoldTimer is dormant when openSent arms it.
C16_TeardownOnceHoldTimerDormant ==
  /\ cleanups \in {0, 1}
  /\ pc \notin {"panic", "blocked"}
  /\ conn = "closed" => (cleanups = 1 /\ holdTimer = Dormant)
  /\ conn = "open" => cleanups = 0
  /\ pc = "openSent" => holdTimer = Dormant

\* openSent is about to arm HoldTimer for a connection that follows one the
\* driver closed while HoldTimer was armed: KeepAliveTimer was armed in
\* that session
C16_Witness ==
  /\ pc = "openSent"
  /\ conn = "open"
  /\ cleanups = 0
  /\ holdTimer = Dormant
  /\ (keepAliveTimer.armed \/ keepAliveTimer.pending)

\* C17: every OPEN the driver has written advertises the configured hold
\* time of the neighbor.
C17_OpenAdvertisesConfiguredHold ==
  openAdv # 0 => openAdv = cfg.HoldTime

\* C18: a call of validateOpen that returns an error leaves the negotiated
\* hold time and the keepalive period as they were before the call.
C18_RejectedOpenChangesNothing ==
  [][(pc = "validate" /\ verr' # NilErr) =>
       (holdTime' = holdTime /\ keepAliveTime' = keepAliveTime)]_vars

\* the Four-Octet-AS capabilities of an OPEN
fourOctetASNs(msg) ==
  {c.asn : c \in {d \in capsOf(msg) : d.kind = "fourOctetAs"}}

\* C19: an OPEN validateOpen accepted comes from the configured peer AS:
\* its AS field is the configured ASN, or it is AS_TRANS and the OPEN
\* carries a Four-Octet-AS capability of the configured ASN.
C19_AcceptedOnlyFromConfiguredAS ==
  (pc = "validated" /\ verr = NilErr) =>
    \/ validated.asn = cfg.ASN
    \/ validated.asn = asTrans /\ cfg.ASN \in fourOctetASNs(validated)

\* C20: with several callers of shut(), a caller has returned only when
\* the driver has finished the handler it was in, cleanup included, and
\* is confirming on f.disable or has terminated.
C20_NoReturnBeforeDriverDone ==
  ShutReturned => pc \in {"echo", "terminated"}
====
